---- MODULE Spec2Model ----
(***************************************************************************)
(* homebridge-suncalc-2: the solar phase monitor (SuncalcAccessory).       *)
(* One monitor for one configured location: construction, the             *)
(* self-rescheduling updateSunTimes loop, direct calls of updateSunTimes   *)
(* (with and without dateOverride) and cleanup.                            *)
(*                                                                         *)
(* Instants are integers: milliseconds since the start of day 0.           *)
(* A JavaScript Date is a record [kind, ms]: kind "date" (a valid Date),   *)
(* "invalid" (a Date whose time value is NaN) or "none" (no Date at all:   *)
(* the key is missing or undefined).                                       *)
(***************************************************************************)
EXTENDS Integers, Sequences, FiniteSets, TLC

\* ------------------------------------------------------------------ time
MinuteMs == 60 * 1000
HourMs == 60 * 60 * 1000
DayMs == 24 * HourMs
BufferMs == 1000

\* the horizon of a run, in hours after the start of day 0
MaxHours == 28

Valid(ms) == [kind |-> "date", ms |-> ms]
InvalidDate == [kind |-> "invalid", ms |-> 0]
NoDate == [kind |-> "none", ms |-> 0]

\* date instanceof Date
IsDate(d) == d.kind # "none"

\* h:m:s.000 of a day, in ms
HMS(h, m, s) == h * HourMs + m * MinuteMs + s * 1000

\* ---------------------------------------------------------------- events
\* Object.keys(SUN_TIMES_META), in declaration order
SUN_TIMES_META ==
  << "nightEnd", "nauticalDawn", "dawn", "sunrise", "sunriseEnd", "goldenHourEnd",
     "solarNoon", "goldenHour", "sunsetStart", "sunset", "dusk", "nauticalDusk",
     "night", "nadir" >>

Range(s) == { s[i] : i \in 1..Len(s) }

EventNames == Range(SUN_TIMES_META)

SENSOR_MODES ==
  [ basic |-> << "sunrise", "sunset" >>,
    extended |-> << "sunrise", "goldenHourEnd", "goldenHour", "sunset" >>,
    full |-> SUN_TIMES_META ]

\* mode values that are not own keys of SENSOR_MODES but that the lookup
\* SENSOR_MODES[this.mode] finds on Object.prototype: the value is a function,
\* not an array of keys
InheritedModes == { "constructor" }

\* config.mode values: "none" stands for a config without a mode
Modes == { "basic", "extended", "full", "none", "custom" } \cup InheritedModes

\* this.mode = config.mode || 'full'
ModeOf(cfg) == IF cfg.mode = "none" THEN "full" ELSE cfg.mode

\* EnabledSensors ignoring the mode: always the full set
EnabledSensorsFull(cfg) == SENSOR_MODES.full

\* this.enabledSensors = SENSOR_MODES[this.mode] || SENSOR_MODES.full; an
\* inherited value is truthy and holds no key
EnabledSensors(cfg) ==
  IF ModeOf(cfg) \in DOMAIN SENSOR_MODES THEN SENSOR_MODES[ModeOf(cfg)]
  ELSE IF ModeOf(cfg) \in InheritedModes THEN << >>
  ELSE SENSOR_MODES.full

\* ---------------------------------------------------------------- oracle
\* The astronomical oracle, suncalc.getTimes(now, lat, lon), is a pure function
\* of the calendar day of `now` and of the coordinates. A location is modelled
\* by the table of its day: the keys of the returned object in the order the
\* oracle inserts them, each key's time of day (or an invalid Date, as the
\* oracle returns where the sun never reaches the angle that day), and the
\* drift of the table from one day to the next.
T(h, m, s, ms) == Valid(HMS(h, m, s) + ms)

SuncalcKeys ==
  << "solarNoon", "nadir", "sunrise", "sunset", "sunriseEnd", "sunsetStart",
     "dawn", "dusk", "nauticalDawn", "nauticalDusk", "nightEnd", "night",
     "goldenHourEnd", "goldenHour" >>

\* mid latitude, equinox: every event exists
MidSpring ==
  [ keys |-> SuncalcKeys,
    drift |-> 95 * 1000,
    at |-> [ nadir |-> T(0, 7, 20, 0), nightEnd |-> T(4, 10, 5, 120),
             nauticalDawn |-> T(4, 50, 40, 0), dawn |-> T(5, 30, 10, 0),
             sunrise |-> T(6, 3, 0, 0), sunriseEnd |-> T(6, 6, 0, 0),
             goldenHourEnd |-> T(6, 45, 30, 500), solarNoon |-> T(12, 7, 20, 0),
             goldenHour |-> T(17, 30, 15, 0), sunsetStart |-> T(18, 8, 40, 0),
             sunset |-> T(18, 11, 40, 0), dusk |-> T(18, 45, 0, 0),
             nauticalDusk |-> T(19, 25, 10, 0), night |-> T(20, 15, 30, 750) ] ]

\* mid latitude, summer solstice: no astronomical night
MidSummer ==
  [ keys |-> SuncalcKeys,
    drift |-> 0,
    at |-> [ nadir |-> T(0, 2, 10, 0), nightEnd |-> InvalidDate,
             nauticalDawn |-> T(2, 1, 0, 0), dawn |-> T(3, 50, 0, 0),
             sunrise |-> T(4, 43, 5, 0), sunriseEnd |-> T(4, 47, 10, 0),
             goldenHourEnd |-> T(5, 38, 0, 0), solarNoon |-> T(13, 2, 10, 0),
             goldenHour |-> T(20, 26, 0, 0), sunsetStart |-> T(21, 17, 30, 0),
             sunset |-> T(21, 21, 20, 0), dusk |-> T(22, 6, 40, 0),
             nauticalDusk |-> T(23, 45, 15, 0), night |-> InvalidDate ] ]

\* polar night: the sun stays below the horizon all day
PolarNight ==
  [ keys |-> SuncalcKeys,
    drift |-> 0,
    at |-> [ nadir |-> T(23, 0, 30, 0), nightEnd |-> T(3, 40, 0, 0),
             nauticalDawn |-> T(6, 10, 0, 0), dawn |-> InvalidDate,
             sunrise |-> InvalidDate, sunriseEnd |-> InvalidDate,
             goldenHourEnd |-> InvalidDate, solarNoon |-> T(11, 0, 30, 0),
             goldenHour |-> InvalidDate, sunsetStart |-> InvalidDate,
             sunset |-> InvalidDate, dusk |-> InvalidDate,
             nauticalDusk |-> T(15, 50, 0, 0), night |-> T(18, 20, 0, 0) ] ]

\* an oracle that knows only a few events (and one that is no solar phase);
\* dusk follows sunsetStart by 3 min 0.4 s, so that an offset of 3 minutes
\* moves sunsetStart to 400 ms before it
Sparse ==
  [ keys |-> << "dawn", "moonrise", "solarNoon", "sunsetStart", "dusk" >>,
    drift |-> 0,
    at |-> [ dawn |-> T(5, 30, 0, 0), moonrise |-> T(9, 0, 0, 0),
             solarNoon |-> T(12, 0, 0, 0), sunsetStart |-> T(18, 0, 0, 0),
             dusk |-> T(18, 3, 0, 400) ] ]

\* coordinates that are not numbers (location: {} or lat/lon undefined): every
\* angle the oracle computes is NaN and every date it returns is invalid
NoCoordinates ==
  [ keys |-> SuncalcKeys,
    drift |-> 0,
    at |-> [ k \in Range(SuncalcKeys) |-> InvalidDate ] ]

Locations == << MidSpring, MidSummer, PolarNight, Sparse, NoCoordinates >>

\* config.location of a config that has no location
NoLocation == 0

\* the configured locations whose latitude and longitude are numbers
ValidLocations == 1..4

\* the calendar day containing an instant
DayOf(now) == now \div DayMs

\* suncalc.getTimes(now, lat, lon)[key]
OracleDate(loc, now, key) ==
  LET tab == Locations[loc]
  IN  IF key \notin DOMAIN tab.at THEN NoDate
      ELSE IF tab.at[key].kind # "date" THEN tab.at[key]
      ELSE Valid(DayOf(now) * DayMs + tab.at[key].ms + DayOf(now) * tab.drift)

\* suncalc.getTimes(now, lat, lon): the keys in insertion order and their dates
GetTimes(loc, now) ==
  [ keys |-> Locations[loc].keys,
    date |-> [ k \in Range(Locations[loc].keys) |-> OracleDate(loc, now, k) ] ]

\* ---------------------------------------------------------------- config
\* config.offset: the set of its << key, minutes >> entries (empty for a config
\* without an offset object)
OffsetConfigs ==
  { { },
    { << "sunriseEnd", -3 >>, << "sunsetStart", 3 >> },
    { << "sunsetStart", -30 >> },
    { << "sunriseEnd", 45 >>, << "sunsetStart", 0 >> },
    { << "sunrise", 20 >>, << "solarNoon", -15 >> } }

Configs ==
  [ location : ValidLocations, mode : Modes \ InheritedModes, offset : OffsetConfigs ]
    \cup [ location : ValidLocations, mode : InheritedModes, offset : { { } } ]
    \cup [ location : (0..Len(Locations)) \ ValidLocations, mode : Modes,
           offset : { { } } ]

\* config.offset?.[key] || 0
OffsetOr0(cfg, key) ==
  IF \E e \in cfg.offset : e[1] = key
    THEN (CHOOSE e \in cfg.offset : e[1] = key)[2]
    ELSE 0

\* this.sunriseEndOffset
SunriseEndOffset(cfg) == OffsetOr0(cfg, "sunriseEnd")

\* SunsetStartOffset left out: sunsetStart keeps its raw instant
SunsetStartOffsetNone(cfg) == 0

\* this.sunsetStartOffset
SunsetStartOffset(cfg) == OffsetOr0(cfg, "sunsetStart")

\* ShiftDate taking the offset for seconds (minutes * 1000)
ShiftDateSeconds(date, minutes) ==
  IF date.kind = "date" THEN Valid(date.ms + (minutes * 1000)) ELSE date

\* new Date(date.getTime() + minutes * 60 * 1000), of a Date (valid or not)
ShiftDate(date, minutes) ==
  IF date.kind = "date" THEN Valid(date.ms + (minutes * 60 * 1000)) ELSE date

\* ApplyOffsets moving sunrise and sunset instead of sunriseEnd and sunsetStart
ApplyOffsetsSunrise(cfg, sunDates) ==
  [ sunDates EXCEPT !.date =
      [ k \in DOMAIN sunDates.date |->
          IF k = "sunrise" /\ IsDate(sunDates.date[k])
            THEN ShiftDate(sunDates.date[k], SunriseEndOffset(cfg))
          ELSE IF k = "sunset" /\ IsDate(sunDates.date[k])
            THEN ShiftDate(sunDates.date[k], SunsetStartOffset(cfg))
          ELSE sunDates.date[k] ] ]

\* updateSunTimes step 2: sunDates after the two offsets are applied
ApplyOffsets(cfg, sunDates) ==
  [ sunDates EXCEPT !.date =
      [ k \in DOMAIN sunDates.date |->
          IF k = "sunriseEnd" /\ IsDate(sunDates.date[k])
            THEN ShiftDate(sunDates.date[k], SunriseEndOffset(cfg))
          ELSE IF k = "sunsetStart" /\ IsDate(sunDates.date[k])
            THEN ShiftDate(sunDates.date[k], SunsetStartOffset(cfg))
          ELSE sunDates.date[k] ] ]

\* ------------------------------------------------------- timeline (step 3)
\* Object.entries(sunDates): << key, date >> pairs in the object's key order
Entries(sunDates) ==
  [ i \in 1..Len(sunDates.keys) |->
      [ key |-> sunDates.keys[i], date |-> sunDates.date[sunDates.keys[i]] ] ]

\* the filter of step 3: a Date, a known solar phase, an enabled sensor
Keep(cfg, e) ==
  /\ IsDate(e.date)
  /\ e.key \in EventNames
  /\ e.key \in Range(EnabledSensors(cfg))

\* the comparator (a, b) => a[1] - b[1] as the sort sees it: NaN counts as 0
CallCompare(a, b) ==
  IF a.date.kind = "date" /\ b.date.kind = "date" THEN a.date.ms - b.date.ms ELSE 0

\* Array.prototype.sort of the engine for arrays this short: the initial run is
\* counted (and reversed when strictly descending), the rest is inserted by
\* binary insertion. With a consistent comparator this is a stable sort.
RECURSIVE RunLength(_, _, _)
RunLength(w, desc, idx) ==
  IF idx > Len(w) THEN idx - 1
  ELSE LET order == CallCompare(w[idx], w[idx - 1])
       IN  IF (desc /\ order >= 0) \/ (~desc /\ order < 0) THEN idx - 1
           ELSE RunLength(w, desc, idx + 1)

Reverse(w) == [ i \in 1..Len(w) |-> w[Len(w) + 1 - i] ]

\* left and right are 0-based, as in the engine
RECURSIVE BinarySearch(_, _, _, _)
BinarySearch(w, pivot, left, right) ==
  IF left >= right THEN left
  ELSE LET mid == left + ((right - left) \div 2)
       IN  IF CallCompare(pivot, w[mid + 1]) < 0
             THEN BinarySearch(w, pivot, left, mid)
             ELSE BinarySearch(w, pivot, mid + 1, right)

\* F(x), with x evaluated once before F is applied to it
Apply(F(_), x) == CHOOSE r \in { F(v) : v \in { x } } : TRUE

\* start is the 0-based index of the next element to insert
RECURSIVE BinaryInsertionSort(_, _)
BinaryInsertionSort(w, start) ==
  IF start >= Len(w) THEN w
  ELSE LET pivot == w[start + 1]
           left == BinarySearch(w, pivot, 0, start)
       IN  Apply(LAMBDA v : BinaryInsertionSort(v, start + 1),
                 SubSeq(w, 1, left) \o << pivot >> \o SubSeq(w, left + 1, start)
                   \o SubSeq(w, start + 2, Len(w)))

\* w is a sequence already evaluated
SortRuns(w) ==
  IF Len(w) < 2 THEN w
  ELSE LET desc == CallCompare(w[2], w[1]) < 0
           run == RunLength(w, desc, 3)
       IN  Apply(LAMBDA v : BinaryInsertionSort(v, run),
                 IF desc THEN Reverse(SubSeq(w, 1, run)) \o SubSeq(w, run + 1, Len(w))
                 ELSE w)

SortByDate(w) == Apply(SortRuns, w)

\* sortedEvents
SortedEvents(cfg, sunDates) ==
  SortByDate(SelectSeq(Entries(sunDates), LAMBDA e : Keep(cfg, e)))

\* --------------------------------------------------- active window (step 4)
\* now >= date, now < date, date > now: false when the Date is invalid (NaN)
NowGe(now, date) == date.kind = "date" /\ now >= date.ms
NowLt(now, date) == date.kind = "date" /\ now < date.ms
\* After taking an invalid Date for a future one
AfterOrInvalid(date, now) == date.kind = "invalid" \/ (date.kind = "date" /\ date.ms > now)

After(date, now) == date.kind = "date" /\ date.ms > now

\* activeKey while it is null
NullKey == "null"

\* the test of the loop body for index i
InWindow(now, sorted, i) ==
  /\ NowGe(now, sorted[i].date)
  /\ (i = Len(sorted) \/ NowLt(now, sorted[i + 1].date))

\* FindActive with the window's lower bound exclusive (now > startTime)
FindActiveExclusive(now, sorted) ==
  LET Hit(i) == /\ sorted[i].date.kind = "date" /\ now > sorted[i].date.ms
                /\ (i = Len(sorted) \/ NowLt(now, sorted[i + 1].date))
  IN  IF \E i \in 1..Len(sorted) : Hit(i)
        THEN sorted[CHOOSE i \in 1..Len(sorted) :
                      Hit(i) /\ \A j \in 1..(i - 1) : ~Hit(j)].key
        ELSE NullKey

\* FindActive by start instants alone: the first of the events that started
\* last
FindActiveLatestStart(now, sorted) ==
  LET started == { i \in 1..Len(sorted) : NowGe(now, sorted[i].date) }
      latest == { i \in started :
                    \A j \in started : sorted[j].date.ms <= sorted[i].date.ms }
  IN  IF started = { } THEN NullKey
      ELSE sorted[CHOOSE i \in latest : \A j \in latest : i <= j].key

\* the loop of step 4: the key of the first index whose test passes, else null
FindActive(now, sorted) ==
  IF \E i \in 1..Len(sorted) : InWindow(now, sorted, i)
    THEN sorted[CHOOSE i \in 1..Len(sorted) :
                  /\ InWindow(now, sorted, i)
                  /\ \A j \in 1..(i - 1) : ~InWindow(now, sorted, j)].key
    ELSE NullKey

\* the fallback after the loop
Fallback(activeKey, sorted) ==
  IF activeKey = NullKey /\ Len(sorted) > 0 THEN sorted[Len(sorted)].key
  ELSE activeKey

\* ----------------------------------------------------- publication (step 5)
\* date.toLocaleTimeString(): the wall-clock time of day, to the second
ToLocaleTimeString(date) ==
  IF date.kind = "date" THEN [str |-> "time", sec |-> (date.ms % DayMs) \div 1000]
  ELSE [str |-> "Invalid Date", sec |-> 0]

\* sunDates[key], undefined when the oracle has no such key
DateOf(sunDates, key) ==
  IF key \in DOMAIN sunDates.date THEN sunDates.date[key] ELSE NoDate

\* timeStr
TimeStr(sunDates, key) ==
  IF IsDate(DateOf(sunDates, key)) THEN ToLocaleTimeString(DateOf(sunDates, key))
  ELSE [str |-> "N/A", sec |-> 0]

\* Publish with an assignment for the comparison (key = activeKey): every
\* sensor reads occupied as soon as there is an active key
PublishAssigned(keys, sunDates, activeKey) ==
  [ k \in keys |->
      [ time |-> TimeStr(sunDates, k), occupied |-> (activeKey # NullKey) ] ]

\* Publish writing to a sensor of every event of the table
PublishEveryEvent(keys, sunDates, activeKey) ==
  [ k \in EventNames |->
      [ time |-> TimeStr(sunDates, k), occupied |-> (k = activeKey) ] ]

\* the values written to the sensors of this.sensors
Publish(keys, sunDates, activeKey) ==
  [ k \in keys |-> [ time |-> TimeStr(sunDates, k), occupied |-> (k = activeKey) ] ]

\* ------------------------------------------------------ scheduling (step 6)
SetMin(S) == CHOOSE x \in S : \A y \in S : x <= y

\* the instants of upcoming
Upcoming(now, sorted) ==
  { sorted[i].date.ms : i \in { j \in 1..Len(sorted) : After(sorted[j].date, now) } }

\* NextWait counting an event at now itself as upcoming (d >= now)
NextWaitInclusive(now, sorted) ==
  LET up == { sorted[i].date.ms :
                i \in { j \in 1..Len(sorted) : NowLt(now - 1, sorted[j].date) } }
  IN  IF up # { } THEN SetMin(up) - now + BufferMs ELSE 60 * 60 * 1000

\* NextWait taking the latest upcoming instant (Math.max for Math.min)
NextWaitLatest(now, sorted) ==
  LET up == Upcoming(now, sorted)
  IN  IF up # { } THEN (CHOOSE x \in up : \A y \in up : y <= x) - now + BufferMs
      ELSE 60 * 60 * 1000

\* nextWait
NextWait(now, sorted) ==
  IF Upcoming(now, sorted) # {} THEN SetMin(Upcoming(now, sorted)) - now + BufferMs
  ELSE 60 * 60 * 1000

\* ----------------------------------------------------------------- state
VARIABLES
  config,       \* the location's config record (immutable)
  constructed,  \* TRUE once the SuncalcAccessory constructor has run
  cleanedUp,    \* TRUE once cleanup() has been called
  clock,        \* the current instant, new Date()
  timer,        \* this.timer: a timer handle, or NoTimer (null / undefined)
  pending,      \* the host's pending timeouts: records [id, at]
  sensors,      \* the values last written to the sensors of this.sensors
  last,         \* the locals of the last updateSunTimes call
  accessory,    \* the platform accessory: context.mode and its occupancy services
  ctor,         \* the constructor's locals previousMode and modeChanged
  other,        \* a second monitor on the same host, for another location
  platformConfig,       \* the platform's this.config
  platformAccessories,  \* this.platformAccessories: uuid -> accessory
  monitors,             \* the SuncalcAccessory instances the platform constructed
  host                  \* the host: its accessory cache, its bridge, its events

monitorVars ==
  << config, constructed, cleanedUp, clock, timer, pending, sensors, last,
     accessory, ctor, other >>

platformVars == << platformConfig, platformAccessories, monitors, host >>

vars ==
  << config, constructed, cleanedUp, clock, timer, pending, sensors, last,
     accessory, ctor, other, platformConfig, platformAccessories, monitors,
     host >>

NoTimer == 0

\* the instants at which the monitor is constructed
StartInstants == { HMS(3, 0, 0), HMS(6, 3, 0), HMS(12, 30, 0) + 250 }

\* the instants passed as dateOverride
OverrideInstants == { HMS(0, 5, 0), HMS(12, 15, 0), HMS(17, 50, 0) }

Horizon == MaxHours * HourMs

NoCall ==
  [ now |-> 0, override |-> FALSE, sorted |-> << >>, activeKey |-> NullKey,
    wait |-> 0, cancelled |-> FALSE ]

\* ClearTimeout left out: the host keeps the timeout
ClearTimeoutNone(handle, pend) == pend

\* clearTimeout(handle): the host drops the pending timeout with that handle
ClearTimeout(handle, pend) == { p \in pend : p.id # handle }

\* ClearOwnTimer left out: the previous timer stays pending
ClearOwnTimerNot(handle, pend) == pend

\* ClearOwnTimer keeping the monitor's own timeout and dropping the others
ClearOwnTimerOthers(handle, pend) == { p \in pend : p.id = handle }

\* ClearOwnTimer clearing every timeout of the host's table
ClearEveryTimer(handle, pend) == IF handle # NoTimer THEN { } ELSE pend

\* the head of updateSunTimes: if (this.timer) { clearTimeout(this.timer); ... }
ClearOwnTimer(handle, pend) ==
  IF handle # NoTimer THEN ClearTimeout(handle, pend) ELSE pend

\* a handle the host has not handed out: distinct from every pending one and
\* from the handle the monitor still holds
FreshHandle(handle, pend) ==
  SetMin({ i \in 1..(Cardinality(pend) + 2) :
             i # handle /\ \A p \in pend : p.id # i })

\* the handle a monitor holds in this.timer, as an entry of the host's table:
\* the host hands out no handle that is still held
Held(handle) == IF handle = NoTimer THEN { } ELSE { [ id |-> handle, at |-> 0 ] }

\* the pending timeouts whose callback is the updateSunTimes of the second
\* monitor, and those of the first
OtherPending(pend) == { p \in pend : "callback" \in DOMAIN p }
OwnPending(pend) == pend \ OtherPending(pend)

\* accessory.context.mode of an accessory no monitor was constructed on
NoContextMode == "undefined"

\* new this.api.platformAccessory(name, uuid): no context.mode, no occupancy
\* service; its other services are the accessory information service
FreshAccessory ==
  [ mode |-> NoContextMode, services |-> << >>,
    others |-> { "AccessoryInformation" } ]

\* an occupancy service as addService leaves it, before the first publication
NewService == [ time |-> [ str |-> "", sec |-> 0 ], occupied |-> FALSE ]

\* ModeChanged never holding: no construction prunes
ModeChangedNever(acc, cfg) == FALSE

\* modeChanged: !!previousMode && previousMode !== this.mode
ModeChanged(acc, cfg) == acc.mode # NoContextMode /\ acc.mode # ModeOf(cfg)

\* PruneServices left out: every cached service stays on the accessory
PruneServicesNot(cfg, services) == services

\* pruneServicesIfNeeded: the occupancy services whose subtype is not one of
\* the enabled keys are removed from the accessory
PruneServices(cfg, services) ==
  [ k \in DOMAIN services \cap Range(EnabledSensors(cfg)) |-> services[k] ]

\* setupServices: each enabled key reuses the accessory's service of that
\* subtype or gets a new one
SetupServices(cfg, services) ==
  [ k \in DOMAIN services \cup Range(EnabledSensors(cfg)) |->
      IF k \in DOMAIN services THEN services[k] ELSE NewService ]

\* the constructor returned
NoError == "none"

\* the statement of the constructor that throws a TypeError: the log line
\* this.enabledSensors.join(', ') when enabledSensors is not an array, or
\* this.location.lat in updateSunTimes when the config has no location
ConstructorError(cfg) ==
  IF ModeOf(cfg) \in InheritedModes THEN "enabledSensors.join"
  ELSE IF cfg.location = NoLocation THEN "location.lat"
  ELSE NoError

\* const previousMode = accessory.context?.mode; const modeChanged = ...
ConstructorLocals(cfg, acc) ==
  [ previousMode |-> acc.mode, modeChanged |-> ModeChanged(acc, cfg),
    error |-> ConstructorError(cfg) ]

\* the accessory as the constructor leaves it before it calls updateSunTimes;
\* pruneServicesIfNeeded passes over the services that are not occupancy
\* sensors
ConstructorAccessory(cfg, acc) ==
  [ mode |-> ModeOf(cfg),
    others |-> acc.others,
    services |->
      SetupServices(cfg, IF ModeChanged(acc, cfg)
                           THEN PruneServices(cfg, acc.services)
                           ELSE acc.services) ]

\* the accessory as a constructor that throws leaves it: context.mode is
\* recorded before the log line, the services are pruned and set up before
\* updateSunTimes
ThrownAccessory(cfg, acc) ==
  IF ConstructorError(cfg) = "enabledSensors.join"
    THEN [ acc EXCEPT !.mode = ModeOf(cfg) ]
    ELSE ConstructorAccessory(cfg, acc)

\* WriteThrough keeping a service occupied once it was: the value written
\* depends on the value written before
WriteThroughLatching(services, published) ==
  [ k \in DOMAIN services |->
      IF k \in DOMAIN published
        THEN [ published[k] EXCEPT !.occupied = @ \/ services[k].occupied ]
        ELSE services[k] ]

\* updateValue on the services held in this.sensors: the services of the
\* accessory with those subtypes take the published values
WriteThrough(services, published) ==
  [ k \in DOMAIN services |->
      IF k \in DOMAIN published THEN published[k] ELSE services[k] ]

\* Arms left out: no call arms a timer
ArmsNever(override) == FALSE

\* step 6: whether this call arms a timer
Arms(override) == ~override

\* updateSunTimes(dateOverride) of the monitor configured by cfg, with
\* now == dateOverride || new Date(), the host's pending timeouts being pend,
\* the keys of this.sensors being keys and the accessory being acc when it is
\* entered
UpdateSunTimes(cfg, override, now, pend, keys, acc) ==
  \E cleared \in { ClearOwnTimer(timer, pend) } :
  \E sunDates \in { ApplyOffsets(cfg, GetTimes(cfg.location, now)) } :
  \E sorted \in { SortedEvents(cfg, sunDates) } :
  \E activeKey \in { Fallback(FindActive(now, sorted), sorted) } :
  \E wait \in { NextWait(now, sorted) } :
  \E handle \in { FreshHandle(timer, cleared \cup Held(other.timer)) } :
  \E published \in { Publish(keys, sunDates, activeKey) } :
      /\ sensors' = published
      /\ accessory' = [ acc EXCEPT !.services = WriteThrough(acc.services, published) ]
      /\ IF Arms(override)
           THEN /\ timer' = handle
                /\ pending' = cleared \cup { [ id |-> handle, at |-> clock' + wait ] }
           ELSE /\ timer' = NoTimer
                /\ pending' = cleared
      /\ last' = [ now |-> now, override |-> override, sorted |-> sorted,
                   activeKey |-> activeKey, wait |-> wait,
                   cancelled |-> (cleared # pend) ]

\* no second monitor on the host
NoOther ==
  [ config |-> [ location |-> 1, mode |-> "none", offset |-> { } ],
    constructed |-> FALSE, cleanedUp |-> FALSE, timer |-> NoTimer,
    sensors |-> << >>, accessory |-> FreshAccessory ]

\* a host that has no platform of this plugin to launch
NoPlatform ==
  /\ platformConfig = [ instances |-> << >> ]
  /\ platformAccessories = << >>
  /\ monitors = << >>
  /\ host = [ cache |-> { }, restored |-> { }, registered |-> { },
              unregistered |-> { }, updated |-> { }, created |-> 0,
              phase |-> "none", error |-> NoError, escaped |-> NoError,
              runs |-> 0, plugin |-> 2, refuses |-> { }, logged |-> { } ]

Init ==
  /\ NoPlatform
  /\ other = NoOther
  /\ config \in Configs
  /\ constructed = FALSE
  /\ cleanedUp = FALSE
  /\ clock \in StartInstants
  /\ timer = NoTimer
  /\ pending = { }
  /\ sensors = << >>
  /\ last = NoCall
  /\ accessory = FreshAccessory
  /\ ctor = [ previousMode |-> NoContextMode, modeChanged |-> FALSE,
              error |-> NoError ]

\* new SuncalcAccessory(log, cfg, api, accessory), the host's pending timeouts
\* being pend: context.mode is recorded, stale services are pruned if the mode
\* changed, setupServices tracks one sensor per enabled key, then
\* updateSunTimes() runs; if a statement throws, no monitor exists and no timer
\* was armed
Constructor(cfg, pend) ==
  /\ ctor' = ConstructorLocals(cfg, accessory)
  /\ IF ConstructorError(cfg) = NoError
       THEN /\ constructed' = TRUE
            /\ UpdateSunTimes(cfg, FALSE, clock, pend, Range(EnabledSensors(cfg)),
                              ConstructorAccessory(cfg, accessory))
       ELSE /\ constructed' = FALSE
            /\ accessory' = ThrownAccessory(cfg, accessory)
            /\ sensors' = << >>
            /\ timer' = NoTimer
            /\ pending' = pend
            /\ last' = NoCall

\* the platform constructs the location's monitor on its accessory
Construct ==
  /\ ~constructed /\ ctor.error = NoError
  /\ clock' = clock
  /\ Constructor(config, pending)
  /\ UNCHANGED << config, cleanedUp, other >>
  /\ UNCHANGED platformVars

\* the host fires the earliest pending timeout: () => this.updateSunTimes()
TimerFire ==
  /\ constructed
  /\ \E p \in OwnPending(pending) :
       /\ \A q \in pending : p.at <= q.at
       /\ p.at <= Horizon
       /\ clock' = p.at
       /\ UpdateSunTimes(config, FALSE, p.at, pending \ { p }, DOMAIN sensors, accessory)
  /\ UNCHANGED << config, constructed, cleanedUp, ctor, other >>
  /\ UNCHANGED platformVars

\* a caller invokes updateSunTimes(dateOverride), as the test suite does
UpdateOverride ==
  /\ constructed /\ ~cleanedUp
  /\ \E d \in OverrideInstants :
       /\ clock' = clock
       /\ UpdateSunTimes(config, TRUE, d, pending, DOMAIN sensors, accessory)
  /\ UNCHANGED << config, constructed, cleanedUp, ctor, other >>
  /\ UNCHANGED platformVars

\* a caller invokes updateSunTimes() without an argument (callers do not use
\* a monitor after cleanup())
UpdateDirect ==
  /\ constructed /\ ~cleanedUp
  /\ clock' = clock
  /\ UpdateSunTimes(config, FALSE, clock, pending, DOMAIN sensors, accessory)
  /\ UNCHANGED << config, constructed, cleanedUp, ctor, other >>
  /\ UNCHANGED platformVars

\* cleanup(): if (this.timer) clearTimeout(this.timer)
Cleanup ==
  /\ constructed
  /\ cleanedUp' = TRUE
  /\ pending' = ClearOwnTimer(timer, pending)
  /\ UNCHANGED << config, constructed, clock, timer, sensors, last, accessory,
                  ctor, other >>
  /\ UNCHANGED platformVars

Next == Construct \/ TimerFire \/ UpdateOverride \/ UpdateDirect \/ Cleanup

Spec == Init /\ [][Next]_vars

\* the host's timers fire: a pending timeout is eventually run
FairSpec == Spec /\ WF_vars(TimerFire)

\* The host is started again with the mode of the location's config changed
\* or not: the monitor of the earlier run and its timers are gone (cleaned up
\* by the platform, or with the process), and the platform constructs a new
\* monitor on the cached accessory, which kept its context and its services.
Restart ==
  /\ constructed \/ ctor.error # NoError
  /\ \E m \in Modes :
       /\ config' = [ config EXCEPT !.mode = m ]
       /\ cleanedUp' = FALSE
       /\ clock' = clock
       /\ Constructor(config', { })
  /\ UNCHANGED other
  /\ UNCHANGED platformVars

\* the configs and the instant the restarted host is checked from
CacheInit ==
  /\ Init
  /\ config.offset = { }
  /\ config.location \in { 1, 3, NoLocation }
  /\ clock = HMS(12, 30, 0) + 250

CacheNext == Next \/ Restart

CacheSpec == CacheInit /\ [][CacheNext]_vars

\* An accessory cached by the earlier version of the plugin: that version
\* recorded no context.mode, tracked all the events, and gave each occupancy
\* service the subtype uuid.generate(`${UUID}:${key}`), a hash of the string
\* that the current version uses as the subtype itself.
HashedSubtype(key) == "#" \o key

\* the earlier version's accessory as the host cached it, solarNoon being the
\* event it last published as occupied
LegacyAccessory ==
  [ mode |-> NoContextMode,
    services |->
      [ s \in { HashedSubtype(k) : k \in EventNames } |->
          [ time |-> [ str |-> "time", sec |-> 0 ],
            occupied |-> (s = HashedSubtype("solarNoon")) ] ],
    others |-> { "AccessoryInformation" } ]

\* the host is started with the current version on that cache
LegacyStart ==
  /\ NoPlatform
  /\ config \in Configs
  /\ config.offset = { }
  /\ config.location \in { 1, 3 }
  /\ constructed = FALSE
  /\ cleanedUp = FALSE
  /\ clock = HMS(12, 30, 0) + 250
  /\ timer = NoTimer
  /\ pending = { }
  /\ sensors = << >>
  /\ last = NoCall
  /\ accessory = LegacyAccessory
  /\ ctor = [ previousMode |-> NoContextMode, modeChanged |-> FALSE,
              error |-> NoError ]
  /\ other = NoOther

LegacySpec == LegacyStart /\ [][CacheNext]_vars

\* ---------------------------------------------------------- two monitors
\* Two monitors of two differently named locations on one host: each has its
\* own config, accessory and fields; the host's table of pending timeouts and
\* the clock are the host's.

\* updateSunTimes(dateOverride) of the second monitor, with now, the host's
\* pending timeouts pend, the keys of its this.sensors and its accessory when
\* it is entered
OtherUpdateSunTimes(override, now, pend, keys, acc) ==
  \E cleared \in { ClearOwnTimer(other.timer, pend) } :
  \E sunDates \in { ApplyOffsets(other.config, GetTimes(other.config.location, now)) } :
  \E sorted \in { SortedEvents(other.config, sunDates) } :
  \E activeKey \in { Fallback(FindActive(now, sorted), sorted) } :
  \E wait \in { NextWait(now, sorted) } :
  \E handle \in { FreshHandle(other.timer, cleared \cup Held(timer)) } :
  \E published \in { Publish(keys, sunDates, activeKey) } :
      /\ other' =
           [ other EXCEPT
               !.constructed = TRUE,
               !.sensors = published,
               !.accessory = [ acc EXCEPT !.services = WriteThrough(acc.services, published) ],
               !.timer = IF Arms(override) THEN handle ELSE NoTimer ]
      /\ pending' =
           IF Arms(override)
             THEN cleared \cup { [ id |-> handle, at |-> clock' + wait,
                                   callback |-> "other" ] }
             ELSE cleared

\* the platform constructs the second location's monitor on its accessory
\* (a location whose config a monitor can be constructed from)
OtherConstruct ==
  /\ ~other.constructed
  /\ ConstructorError(other.config) = NoError
  /\ clock' = clock
  /\ OtherUpdateSunTimes(FALSE, clock, pending, Range(EnabledSensors(other.config)),
                         ConstructorAccessory(other.config, other.accessory))
  /\ UNCHANGED << config, constructed, cleanedUp, timer, sensors, last, accessory,
                  ctor >>
  /\ UNCHANGED platformVars

\* the host fires the earliest pending timeout, one of the second monitor
OtherTimerFire ==
  /\ other.constructed
  /\ \E p \in OtherPending(pending) :
       /\ \A q \in pending : p.at <= q.at
       /\ p.at <= Horizon
       /\ clock' = p.at
       /\ OtherUpdateSunTimes(FALSE, p.at, pending \ { p }, DOMAIN other.sensors,
                              other.accessory)
  /\ UNCHANGED << config, constructed, cleanedUp, timer, sensors, last, accessory,
                  ctor >>
  /\ UNCHANGED platformVars

\* a caller invokes updateSunTimes(dateOverride) or updateSunTimes() on the
\* second monitor: now is dateOverride || new Date()
OtherUpdate ==
  /\ other.constructed /\ ~other.cleanedUp
  /\ \E override \in BOOLEAN, d \in OverrideInstants :
       /\ clock' = clock
       /\ OtherUpdateSunTimes(override, IF override THEN d ELSE clock, pending,
                              DOMAIN other.sensors, other.accessory)
  /\ UNCHANGED << config, constructed, cleanedUp, timer, sensors, last, accessory,
                  ctor >>
  /\ UNCHANGED platformVars

\* cleanup() of the second monitor
OtherCleanup ==
  /\ other.constructed
  /\ other' = [ other EXCEPT !.cleanedUp = TRUE ]
  /\ pending' = ClearOwnTimer(other.timer, pending)
  /\ UNCHANGED << config, constructed, cleanedUp, clock, timer, sensors, last,
                  accessory, ctor >>
  /\ UNCHANGED platformVars

\* the configs of the two locations
PairConfigs ==
  { << [ location |-> 1, mode |-> "full",
         offset |-> { << "sunriseEnd", -3 >>, << "sunsetStart", 3 >> } ],
       [ location |-> 2, mode |-> "extended", offset |-> { } ] >>,
    << [ location |-> 3, mode |-> "basic", offset |-> { } ],
       [ location |-> 1, mode |-> "basic", offset |-> { } ] >>,
    << [ location |-> 1, mode |-> "extended", offset |-> { } ],
       [ location |-> 1, mode |-> "extended", offset |-> { } ] >> }

PairInit ==
  /\ NoPlatform
  /\ \E c \in PairConfigs : config = c[1] /\ other = [ NoOther EXCEPT !.config = c[2] ]
  /\ constructed = FALSE
  /\ cleanedUp = FALSE
  /\ clock = HMS(12, 30, 0) + 250
  /\ timer = NoTimer
  /\ pending = { }
  /\ sensors = << >>
  /\ last = NoCall
  /\ accessory = FreshAccessory
  /\ ctor = [ previousMode |-> NoContextMode, modeChanged |-> FALSE,
              error |-> NoError ]

PairNext ==
  Next \/ OtherConstruct \/ OtherTimerFire \/ OtherUpdate \/ OtherCleanup

PairSpec == PairInit /\ [][PairNext]_vars

\* ------------------------------------------------------------- platform
\* The platform side: the host restores the cached accessories through
\* configureAccessory, emits didFinishLaunching, and the platform reconciles
\* its config with the accessories. A monitor is here what the platform sees
\* of it: the accessory it was constructed on, and whether its timer is
\* pending (the constructor arms one, cleanup() cancels it).

\* the number of configured locations, and of didFinishLaunching events
MaxInstances == 2
MaxLaunches == 2

\* instanceConfig.name of a config without a name
NoName == "undefined"

\* `Suncalc-${index + 1}`
DefaultNames == << "Suncalc-1", "Suncalc-2", "Suncalc-3" >>

\* const baseName = instanceConfig.name ?? `Suncalc-${index + 1}`
BaseName(cfg, i) == IF cfg.name = NoName THEN DefaultNames[i] ELSE cfg.name

\* this.api.hap.uuid.generate(`${PLUGIN_NAME}:${baseName}`): a function of the
\* string alone
UUID(baseName) == << "homebridge-suncalc-2", baseName >>

\* the configs of one location
LocationConfigs ==
  [ name : { "A", "B", NoName }, location : { 1, NoLocation },
    mode : { "none" }, offset : { { } } ]

\* the platform config: an object with an `instances` array, or the config of
\* a single location itself
PlatformConfigs ==
  { [ instances |-> l ] :
      l \in UNION { [ 1..n -> LocationConfigs ] : n \in 1..MaxInstances } }
    \cup LocationConfigs

\* const configs = Array.isArray(this.config.instances) ? ... : [this.config]
ConfigsOf(pc) == IF "instances" \in DOMAIN pc THEN pc.instances ELSE << pc >>

\* accessory._instance of an accessory without a monitor
NoInstance == 0

\* accessory.context.config of an accessory that has none
NoConfig == [ name |-> NoName ]

\* the accessories an earlier run left in the host's cache, as the host
\* restores them: no _instance
CachedAccessory(name) ==
  [ uuid |-> UUID(name), object |-> << "cached", name >>,
    context |-> NoConfig, instance |-> NoInstance ]

HostCaches == SUBSET { CachedAccessory(n) : n \in { "A", "B", "Old" } }

\* the two versions of platform.js: the earlier one does not clean up an
\* accessory's monitor before re-initialising
PluginVersions == { 1, 2 }

\* the platform is constructed: new Suncalc2Platform(log, config, api)
PlatformInit ==
  /\ platformConfig \in PlatformConfigs
  /\ platformAccessories = << >>
  /\ monitors = << >>
  /\ host \in [ cache : HostCaches, restored : { { } }, registered : { { } },
                unregistered : { { } }, updated : { { } }, created : { 0 },
                phase : { "restoring" },
                error : { NoError }, escaped : { NoError }, runs : { 0 },
                plugin : PluginVersions, refuses : { { } }, logged : { { } } ]

\* configureAccessory(accessory): the host hands over a cached accessory
ConfigureAccessory ==
  /\ host.phase = "restoring"
  /\ \E a \in host.cache :
       /\ platformAccessories' =
            [ u \in DOMAIN platformAccessories \cup { a.uuid } |->
                IF u = a.uuid
                  THEN [ object |-> a.object, context |-> a.context,
                         instance |-> a.instance ]
                  ELSE platformAccessories[u] ]
       /\ host' = [ host EXCEPT !.cache = @ \ { a },
                                !.restored = @ \cup { a.object } ]
  /\ UNCHANGED << platformConfig, monitors >>
  /\ UNCHANGED monitorVars

\* CleanupInstance left out: the old monitor keeps its timer
CleanupInstanceNot(mons, id) == mons

\* accessory._instance.cleanup(): the monitor's timer is cancelled
CleanupInstance(mons, id) ==
  [ mons EXCEPT ![id].pending = FALSE, ![id].cleanedUp = TRUE ]

\* Register without its try/catch: what the host throws leaves the loop
RegisterUncaught(hst, uuid, object) ==
  IF uuid \in hst.refuses
    THEN [ host |-> [ hst EXCEPT !.created = @ + 1 ], thrown |-> "register" ]
    ELSE [ host |-> [ hst EXCEPT !.registered = @ \cup { object },
                                 !.created = @ + 1 ],
           thrown |-> NoError ]

\* try { this.api.registerPlatformAccessories(...) } catch (err) { log }: the
\* host throws for the accessories it refuses, and the catch block logs it
Register(hst, uuid, object) ==
  IF uuid \in hst.refuses
    THEN [ host |-> [ hst EXCEPT !.logged = @ \cup { << "register", uuid >> },
                                 !.created = @ + 1 ],
           thrown |-> NoError ]
    ELSE [ host |-> [ hst EXCEPT !.registered = @ \cup { object },
                                 !.created = @ + 1 ],
           thrown |-> NoError ]

\* the body of the loop over the configs, for the config at index i; st holds
\* the accessory map, the monitors, the host, keepUuids and the error thrown
ReconcileOne(i, cfg, st) ==
  LET uuid == UUID(BaseName(cfg, i))
      known == uuid \in DOMAIN st.accs
      reinit == known /\ st.host.plugin = 2 /\ st.accs[uuid].instance # NoInstance
      object == IF known THEN st.accs[uuid].object
                ELSE << "created", st.host.created + 1 >>
      instance == IF known /\ ~reinit THEN st.accs[uuid].instance ELSE NoInstance
      mons == IF reinit THEN CleanupInstance(st.mons, st.accs[uuid].instance)
              ELSE st.mons
      reg == IF known
               THEN [ host |-> [ st.host EXCEPT !.updated = @ \cup { object } ],
                      thrown |-> NoError ]
               ELSE Register(st.host, uuid, object)
      hst == reg.host
      reached == reg.thrown = NoError /\ instance = NoInstance
      throws == reached /\ ConstructorError(cfg) # NoError
      attach == reached /\ ConstructorError(cfg) = NoError
  IN  [ accs |->
          [ u \in DOMAIN st.accs \cup { uuid } |->
              IF u = uuid
                THEN [ object |-> object, context |-> cfg,
                       instance |-> IF attach THEN Len(mons) + 1 ELSE instance ]
                ELSE st.accs[u] ],
        mons |->
          IF attach
            THEN Append(mons, [ uuid |-> uuid, object |-> object, config |-> cfg,
                                pending |-> TRUE, cleanedUp |-> FALSE,
                                recomputed |-> 0 ])
            ELSE mons,
        host |-> hst,
        keep |-> st.keep \cup { uuid },
        error |-> IF reg.thrown # NoError THEN reg.thrown
                  ELSE IF throws THEN ConstructorError(cfg)
                  ELSE NoError ]

\* the loop over the configs from index i on: an exception ends it
RECURSIVE ReconcileFrom(_, _, _)
ReconcileFrom(i, configs, st) ==
  IF i > Len(configs) \/ st.error # NoError THEN st
  ELSE ReconcileFrom(i + 1, configs, Apply(LAMBDA s : ReconcileOne(i, configs[i], s), st))

\* FinalPruning left out
FinalPruningNot(st) == st

\* the final pruning, reached if the loop threw nothing: the accessories whose
\* uuid is not in keepUuids are unregistered and deleted from the map; when
\* the host throws for one, the catch block logs it, the accessory stays in
\* the map and the loop goes on
FinalPruning(st) ==
  IF st.error # NoError THEN st
  ELSE LET obsolete == DOMAIN st.accs \ st.keep
           removed == obsolete \ st.host.refuses
       IN  [ st EXCEPT
               !.accs = [ u \in DOMAIN st.accs \ removed |-> st.accs[u] ],
               !.host.unregistered = @ \cup { st.accs[u].object : u \in removed },
               !.host.logged =
                  @ \cup { << "unregister", u >> : u \in obsolete \cap st.host.refuses } ]

\* _reconcileAccessories()
ReconcileAccessories(pc, accs, mons, hst) ==
  FinalPruning(ReconcileFrom(1, ConfigsOf(pc),
                 [ accs |-> accs, mons |-> mons, host |-> hst, keep |-> { },
                   error |-> NoError ]))

\* LaunchHandler without its try/catch: what reconcile throws reaches the host
LaunchHandlerUncaught(thrown) == [ logged |-> NoError, escaped |-> thrown ]

\* the didFinishLaunching handler: try { await this._reconcileAccessories() }
\* catch (err) { this.log.error(...) }; thrown is what reconcile threw
LaunchHandler(thrown) == [ logged |-> thrown, escaped |-> NoError ]

\* the host emits didFinishLaunching once the cache is restored: the handler
\* awaits _reconcileAccessories() and catches and logs what it throws; an
\* exception that left the handler would end the host
DidFinishLaunching ==
  /\ host.phase \in { "restoring", "launched" }
  /\ host.cache = { }
  /\ host.runs < MaxLaunches
  /\ \E r \in { ReconcileAccessories(platformConfig, platformAccessories,
                                     monitors, host) } :
       /\ platformAccessories' = r.accs
       /\ monitors' = r.mons
       /\ \E h \in { LaunchHandler(r.error) } :
            host' = [ r.host EXCEPT
                        !.phase = IF h.escaped = NoError THEN "launched"
                                  ELSE "crashed",
                        !.error = h.logged,
                        !.escaped = h.escaped,
                        !.runs = @ + 1 ]
  /\ UNCHANGED platformConfig
  /\ UNCHANGED monitorVars

\* ShutdownMonitors left out: no monitor is cleaned up
ShutdownMonitorsNot(accs, mons) == mons

\* _shutdown(): cleanup() on the _instance of every accessory of the map
ShutdownMonitors(accs, mons) ==
  [ id \in DOMAIN mons |->
      IF \E u \in DOMAIN accs : accs[u].instance = id
        THEN [ mons[id] EXCEPT !.pending = FALSE, !.cleanedUp = TRUE ]
        ELSE mons[id] ]

\* the host emits shutdown: the handler registered in the constructor calls
\* _shutdown()
Shutdown ==
  /\ host.phase \in { "restoring", "launched" }
  /\ host.cache = { }
  /\ monitors' = ShutdownMonitors(platformAccessories, monitors)
  /\ host' = [ host EXCEPT !.phase = "shutdown" ]
  /\ UNCHANGED << platformConfig, platformAccessories >>
  /\ UNCHANGED monitorVars

\* the monitor variables while only the platform is looked at
NoMonitor ==
  /\ config = [ location |-> 1, mode |-> "none", offset |-> { } ]
  /\ constructed = FALSE
  /\ cleanedUp = FALSE
  /\ clock = HMS(3, 0, 0)
  /\ timer = NoTimer
  /\ pending = { }
  /\ sensors = << >>
  /\ last = NoCall
  /\ accessory = FreshAccessory
  /\ ctor = [ previousMode |-> NoContextMode, modeChanged |-> FALSE,
              error |-> NoError ]
  /\ other = NoOther

PlatformStart == PlatformInit /\ NoMonitor

PlatformNext == ConfigureAccessory \/ DidFinishLaunching \/ Shutdown

PlatformSpec == PlatformStart /\ [][PlatformNext]_vars

\* The monitors of the platform at work between launch and shutdown.

\* the number of recomputations of one monitor
MaxRecomputations == 2

\* the host fires the pending timeout of a monitor: updateSunTimes() clears
\* this.timer and arms the next timeout
MonitorTimerFire ==
  /\ \E id \in DOMAIN monitors :
       /\ monitors[id].pending
       /\ monitors[id].recomputed < MaxRecomputations
       /\ monitors' = [ monitors EXCEPT ![id].pending = Arms(FALSE),
                                        ![id].recomputed = @ + 1 ]
  /\ UNCHANGED << platformConfig, platformAccessories, host >>
  /\ UNCHANGED monitorVars

\* a caller invokes updateSunTimes(dateOverride) or updateSunTimes() on the
\* monitor of an accessory: the timer is cleared, and armed again unless a
\* date was passed
MonitorUpdate ==
  /\ \E id \in DOMAIN monitors, override \in BOOLEAN :
       /\ ~monitors[id].cleanedUp
       /\ monitors[id].recomputed < MaxRecomputations
       /\ monitors' = [ monitors EXCEPT ![id].pending = Arms(override),
                                        ![id].recomputed = @ + 1 ]
  /\ UNCHANGED << platformConfig, platformAccessories, host >>
  /\ UNCHANGED monitorVars

RunningNext == PlatformNext \/ MonitorTimerFire \/ MonitorUpdate

RunningSpec == PlatformStart /\ [][RunningNext]_vars

\* The platform on a host whose bridge refuses some accessories:
\* registerPlatformAccessories and unregisterPlatformAccessories throw for
\* them ('already bridged', 'Cannot find', or any other error).
RefusedUuids == SUBSET { UUID("A"), UUID("B") }

RegistryStart ==
  /\ NoMonitor
  /\ platformConfig \in PlatformConfigs
  /\ platformAccessories = << >>
  /\ monitors = << >>
  /\ \E h \in [ cache : HostCaches, plugin : PluginVersions,
                 refuses : RefusedUuids \ { { } } ] :
       host = [ cache |-> h.cache, restored |-> { }, registered |-> { },
                unregistered |-> { }, updated |-> { }, created |-> 0,
                phase |-> "restoring", error |-> NoError, escaped |-> NoError,
                runs |-> 0, plugin |-> h.plugin, refuses |-> h.refuses,
                logged |-> { } ]

RegistrySpec == RegistryStart /\ [][PlatformNext]_vars

\* ================================================================ claims
\* the keys published as occupied
Occupied == { k \in DOMAIN sensors : sensors[k].occupied }

\* every entry of a timeline holds a valid instant
AllValid(sorted) == \A i \in 1..Len(sorted) : sorted[i].date.kind = "date"

\* a timeline is in ascending order of instant
Ascending(sorted) ==
  \A i \in 1..(Len(sorted) - 1) : sorted[i].date.ms <= sorted[i + 1].date.ms

\* the instant of entry i of the last call's timeline
At(i) == last.sorted[i].date.ms

\* C1. Window rule: after updateSunTimes ran with instant now on a timeline of
\* valid events sorted by adjusted instant, a non-last event i is published as
\* the active one exactly when instant_i <= now < instant_(i+1), and the last
\* event is the active one whenever now >= instant_last.
C1_WindowRule ==
  (constructed /\ AllValid(last.sorted) /\ Ascending(last.sorted)) =>
    \A i \in 1..Len(last.sorted) :
      /\ i < Len(last.sorted) =>
           ( (last.activeKey = last.sorted[i].key /\ sensors[last.sorted[i].key].occupied)
             <=> (At(i) <= last.now /\ last.now < At(i + 1)) )
      /\ (i = Len(last.sorted) /\ last.now >= At(i)) =>
           (last.activeKey = last.sorted[i].key /\ sensors[last.sorted[i].key].occupied)

\* a non-last event is active through its window, on a valid timeline of at
\* least three events, the instant being exactly the event's instant
C1_Witness ==
  /\ constructed /\ AllValid(last.sorted) /\ Ascending(last.sorted)
  /\ Len(last.sorted) >= 3
  /\ \E i \in 1..(Len(last.sorted) - 1) :
       /\ At(i) = last.now /\ last.now < At(i + 1)
       /\ sensors[last.sorted[i].key].occupied

\* What the last call's timeline is to hold, stated from the oracle and the
\* config alone: the raw instant of a key, the minutes configured for it, and
\* the enabled keys that hold a valid instant.
RawDateAt(k, now) == OracleDate(config.location, now, k)

ConfiguredMinutes(k) ==
  IF k \in { "sunriseEnd", "sunsetStart" } /\ (\E e \in config.offset : e[1] = k)
    THEN (CHOOSE e \in config.offset : e[1] = k)[2]
    ELSE 0

ExpectedInstantAt(k, now) == RawDateAt(k, now).ms + ConfiguredMinutes(k) * 60000

ValidEnabledAt(now) ==
  { k \in Range(EnabledSensors(config)) : RawDateAt(k, now).kind = "date" }

RawDate(k) == RawDateAt(k, last.now)

ExpectedInstant(k) == ExpectedInstantAt(k, last.now)

ValidEnabled == ValidEnabledAt(last.now)

\* C2. Exactly one active event: for a non-empty timeline and a now at or
\* after the first event's instant, exactly one enabled event is published as
\* occupied.
C2_ExactlyOne ==
  (constructed /\ (\E k \in ValidEnabled : ExpectedInstant(k) <= last.now)) =>
    Cardinality(Occupied) = 1

\* a recomputation on a valid timeline of at least three events, at an instant
\* past the first one, with one event occupied
C2_Witness ==
  /\ constructed /\ AllValid(last.sorted) /\ Len(last.sorted) >= 3
  /\ \E k \in ValidEnabled : ExpectedInstant(k) <= last.now
  /\ Cardinality(Occupied) = 1

\* C3. Pre-first-event fallback: when now is earlier than the first timeline
\* event's instant (timeline non-empty), the last event of the timeline is the
\* occupied one and no other event is occupied.
C3_PreFirstFallback ==
  (constructed /\ ValidEnabled # { }
     /\ \A k \in ValidEnabled : last.now < ExpectedInstant(k)) =>
    \E k \in ValidEnabled :
      /\ Occupied = { k }
      /\ \A j \in ValidEnabled : ExpectedInstant(j) <= ExpectedInstant(k)

\* C4. Empty timeline: when the enabled set yields no valid event, no event is
\* active, no fallback applies, every enabled sensor is published as not
\* occupied, and (the call being one that schedules) the one-hour wakeup is
\* armed.
C4_EmptyTimeline ==
  (constructed /\ ValidEnabled = { }) =>
    /\ last.activeKey = NullKey
    /\ Occupied = { }
    /\ (~last.override /\ ~cleanedUp) =>
         pending = { [ id |-> timer, at |-> last.now + 3600000 ] }

\* C5. Rescheduling: the wakeup a recomputation arms is due 1000 ms after the
\* earliest timeline instant strictly after now, or one hour after now when
\* there is none; an event at now itself is not upcoming.
C5_Rescheduling ==
  \A p \in pending :
    LET future == { ExpectedInstant(k) : k \in { j \in ValidEnabled :
                                                   ExpectedInstant(j) > last.now } }
    IN  /\ ~last.override
        /\ p.at - last.now =
             IF future # { } THEN SetMin(future) - last.now + 1000 ELSE 3600000

\* a wakeup armed by a recomputation at the very instant of a timeline event,
\* with later events to come
C5_Witness ==
  /\ constructed /\ pending # { }
  /\ \E k \in ValidEnabled : ExpectedInstant(k) = last.now
  /\ \E k \in ValidEnabled : ExpectedInstant(k) > last.now

\* C6. At most one timer is outstanding in every reachable state, and it is the
\* one the monitor holds the handle of.
C6_AtMostOneTimer ==
  /\ Cardinality(pending) <= 1
  /\ \A p \in pending : p.id = timer

\* a call of updateSunTimes that cancelled a pending timer and armed a new one
C6_Witness ==
  /\ constructed /\ last.cancelled /\ ~last.override
  /\ Cardinality(pending) = 1

\* C7. Armed unless torn down: a constructed monitor that has not been torn
\* down has exactly one wakeup pending after every call of updateSunTimes,
\* calls with a dateOverride included.
C7_ArmedUnlessTornDown ==
  (constructed /\ ~cleanedUp) => Cardinality(pending) = 1

\* the active event the window rule yields for the oracle's timeline at t
TrueActive(t) ==
  Apply(LAMBDA sorted : Fallback(FindActive(t, sorted), sorted),
        SortedEvents(config, ApplyOffsets(config, GetTimes(config.location, t))))

\* the instants in (from, to] at which the true active event changes
Boundaries(from, to) ==
  { b \in { x \in UNION { { ExpectedInstantAt(k, t) : k \in ValidEnabledAt(t) }
                            \cup { DayOf(t) * DayMs } : t \in { from, to } } :
              from < x /\ x <= to } :
      TrueActive(b - 1) # TrueActive(b) }

\* C8. Re-evaluation at every change: every instant at which the true active
\* event changed since the previous recomputation, the first event of the next
\* day's timeline included, lies at most 1000 ms before the timer-fired
\* recomputation that follows it.
C8_ReevaluatesAtEveryChange ==
  [][clock' # clock =>
       \A b \in Boundaries(clock, clock') : clock' <= b + 1000]_vars

\* C8, the hourly poll taken into account: a change at an event of the timeline
\* the monitor last computed is followed by a recomputation within 1000 ms;
\* once that timeline has no event left the monitor polls hourly, and a change
\* (the first event of the next day's timeline) is followed by a recomputation
\* within one hour.
C8_ReevaluatesWithinBufferOrHour ==
  [][clock' # clock =>
       \A b \in Boundaries(clock, clock') :
         IF \E k \in ValidEnabledAt(clock) : ExpectedInstantAt(k, clock) > clock
           THEN /\ \E k \in ValidEnabledAt(clock) : ExpectedInstantAt(k, clock) = b
                /\ clock' <= b + 1000
           ELSE clock' <= b + 3600000]_vars

\* a timer-fired recomputation on the next day that publishes that day's
\* first event more than 1000 ms (and less than an hour) after its instant
C8_Witness ==
  /\ constructed /\ ~last.override /\ last.now = clock /\ DayOf(clock) >= 1
  /\ \E k \in ValidEnabled :
       /\ Occupied = { k }
       /\ \A j \in ValidEnabled : ExpectedInstant(k) <= ExpectedInstant(j)
       /\ ExpectedInstant(k) + 1000 < clock
       /\ clock <= ExpectedInstant(k) + 3600000

\* C9. Liveness / day rollover: with the host's timers firing, a monitor that
\* is not torn down keeps recomputing and so comes to recompute on the next
\* calendar day.
C9_RollsIntoNextDay ==
  (constructed /\ ~cleanedUp) ~> (cleanedUp \/ DayOf(clock) >= 1)

\* C10. Offset correctness: in the timeline, sunriseEnd and sunsetStart stand
\* at raw instant + configured minutes * 60000 ms; every other event stands at
\* its raw instant, whatever offsets are configured under other keys.
C10_OffsetCorrectness ==
  constructed =>
    \A i \in 1..Len(last.sorted) :
      LET k == last.sorted[i].key
          m == IF k = "sunriseEnd" THEN ConfiguredMinutes("sunriseEnd")
               ELSE IF k = "sunsetStart" THEN ConfiguredMinutes("sunsetStart")
               ELSE 0
      IN  RawDate(k).kind = "date" =>
            last.sorted[i].date = Valid(RawDate(k).ms + m * 60000)

\* a timeline holding sunsetStart moved earlier and sunriseEnd moved later or
\* earlier, under a config that also names offsets for other keys or not
C10_Witness ==
  /\ constructed
  /\ \E i, j \in 1..Len(last.sorted) :
       /\ last.sorted[i].key = "sunsetStart"
       /\ last.sorted[j].key = "sunriseEnd"
       /\ ConfiguredMinutes("sunriseEnd") # 0
       /\ ConfiguredMinutes("sunsetStart") # 0
       /\ last.sorted[i].date.ms = RawDate("sunsetStart").ms
                                     + ConfiguredMinutes("sunsetStart") * 60000
       /\ last.sorted[j].date.ms = RawDate("sunriseEnd").ms
                                     + ConfiguredMinutes("sunriseEnd") * 60000

\* the key the code publishes as occupied for config cfg at instant now
ActiveKeyFor(cfg, now) ==
  CHOOSE a \in { Fallback(FindActive(now, s), s) :
                 s \in { SortedEvents(cfg, ApplyOffsets(cfg, GetTimes(cfg.location, now))) } } :
    TRUE

\* the config with the offset of sunsetStart set to 0
ZeroSunsetStart(cfg) ==
  [ cfg EXCEPT !.offset = { e \in cfg.offset : e[1] # "sunsetStart" }
                            \cup { << "sunsetStart", 0 >> } ]

\* the instant now lies before every timeline event that is not earlier than
\* the adjusted sunsetStart: now is earlier than the next timeline event
BeforeNextAfterSunsetStart(now) ==
  \A k \in ValidEnabledAt(now) \ { "sunsetStart" } :
    ExpectedInstantAt(k, now) >= ExpectedInstantAt("sunsetStart", now)
      => now < ExpectedInstantAt(k, now)

\* C11. Offsets are applied before window resolution: in full mode with a
\* negative offset m on sunsetStart whose raw instant is t, after a
\* recomputation at any now with t + m*60000 <= now < t and now earlier than
\* the next timeline event, sunsetStart is published occupied, whereas with
\* offset 0 and the same now the code does not publish it occupied.
C11_OffsetsBeforeWindow ==
  ( /\ constructed
    /\ ModeOf(config) = "full"
    /\ ConfiguredMinutes("sunsetStart") < 0
    /\ RawDate("sunsetStart").kind = "date"
    /\ RawDate("sunsetStart").ms + ConfiguredMinutes("sunsetStart") * 60000 <= last.now
    /\ last.now < RawDate("sunsetStart").ms
    /\ BeforeNextAfterSunsetStart(last.now) )
  => /\ sensors["sunsetStart"].occupied
     /\ Occupied = { "sunsetStart" }
     /\ ActiveKeyFor(ZeroSunsetStart(config), last.now) # "sunsetStart"

\* the test suite's case: offset -30 on sunsetStart, a recomputation at 17:50
\* by dateOverride, between the adjusted and the raw instant of sunsetStart
C11_Witness ==
  /\ constructed
  /\ ModeOf(config) = "full"
  /\ ConfiguredMinutes("sunsetStart") = -30
  /\ last.override /\ last.now = HMS(17, 50, 0)
  /\ RawDate("sunsetStart").kind = "date"
  /\ RawDate("sunsetStart").ms - 30 * 60000 <= last.now
  /\ last.now < RawDate("sunsetStart").ms
  /\ sensors["sunsetStart"].occupied
  /\ ActiveKeyFor(ZeroSunsetStart(config), last.now) = "goldenHour"

\* the entries of a timeline that hold a valid instant are in ascending order
ValidAscending(sorted) ==
  \A i, j \in 1..Len(sorted) :
    (i < j /\ sorted[i].date.kind = "date" /\ sorted[j].date.kind = "date")
      => sorted[i].date.ms <= sorted[j].date.ms

\* C12. Timeline construction: the timeline used by every recomputation holds
\* exactly the enabled events that hold an instant, once each, with their
\* offset-adjusted instant, sorted ascending by that instant.
C12_TimelineConstruction ==
  constructed =>
    /\ { last.sorted[i].key : i \in 1..Len(last.sorted) } = ValidEnabled
    /\ Len(last.sorted) = Cardinality(ValidEnabled)
    /\ \A i \in 1..Len(last.sorted) :
         last.sorted[i].date = Valid(ExpectedInstant(last.sorted[i].key))
    /\ ValidAscending(last.sorted)

\* the position of an event name in the event table
DeclarationIndex(k) == CHOOSE i \in 1..Len(SUN_TIMES_META) : SUN_TIMES_META[i] = k

\* C13. Tie-break: when two timeline events have the identical instant, their
\* relative order in the timeline is the declaration order of EventName (the
\* order of the 14 identifiers in the event table).
C13_TieBreakByDeclaration ==
  constructed =>
    \A i, j \in 1..Len(last.sorted) :
      ( /\ i < j
        /\ last.sorted[i].date.kind = "date" /\ last.sorted[j].date.kind = "date"
        /\ last.sorted[i].date.ms = last.sorted[j].date.ms )
      => DeclarationIndex(last.sorted[i].key) < DeclarationIndex(last.sorted[j].key)

\* C14. Invalid or missing instants are excluded from the timeline: an enabled
\* event for which the oracle returns no value or an invalid instant does not
\* appear in the sorted timeline and does not bound any other event's window
\* (every entry but the last one is followed by an entry with an instant).
C14_InvalidExcluded ==
  constructed =>
    \A i \in 1..Len(last.sorted) :
      /\ RawDate(last.sorted[i].key).kind = "date"
      /\ last.sorted[i].date.kind = "date"

\* C15. Degraded event publication: for an enabled event whose oracle instant
\* is missing or invalid, every recomputation publishes the display time 'N/A'
\* and occupied = false, for every now.
C15_DegradedPublication ==
  constructed =>
    \A k \in DOMAIN sensors :
      RawDate(k).kind # "date" =>
        (sensors[k].time.str = "N/A" /\ ~sensors[k].occupied)

\* the occupancy services of the accessory that read occupied
OccupiedServices ==
  { k \in DOMAIN accessory.services : accessory.services[k].occupied }

C17_ConstructionNeverEmpty ==
  [][ (~constructed /\ constructed') =>
        /\ last'.now = clock /\ ~last'.override
        /\ DOMAIN sensors' = Range(EnabledSensors(config))
        /\ DOMAIN accessory'.services = Range(EnabledSensors(config))
        /\ \A k \in DOMAIN sensors' :
             /\ sensors'[k].occupied \in BOOLEAN
             /\ sensors'[k].time.str \in { "time", "N/A", "Invalid Date" }
             /\ accessory'.services[k] = sensors'[k]
        /\ Cardinality(pending') = 1
        /\ timer' # NoTimer
        /\ \E p \in pending' : p.id = timer' /\ p.at = clock + last'.wait
        /\ last'.wait > 0
    ]_vars

\* the state the constructor returns in, for a full-mode monitor: fourteen
\* sensors published for the instant of construction and one wakeup pending
C17_Witness ==
  /\ constructed /\ ~cleanedUp
  /\ clock \in StartInstants /\ last.now = clock
  /\ ~last.override /\ ~last.cancelled
  /\ DOMAIN sensors = Range(EnabledSensors(config))
  /\ Cardinality(DOMAIN sensors) = 14
  /\ Cardinality(pending) = 1
  /\ \E p \in pending : p.id = timer

\* C18. Teardown idempotence: in every state of a constructed monitor, with a
\* timer armed or not, cleanup() can be called (it does not throw), leaves no
\* pending timer, and a second call can follow and leaves none either.
C18_TeardownIdempotent ==
  constructed =>
    /\ ENABLED Cleanup
    /\ ClearOwnTimer(timer, pending) = { }
    /\ ClearOwnTimer(timer, ClearOwnTimer(timer, pending)) = { }
    /\ cleanedUp => pending = { }

\* cleanup() was called on a monitor that had a timer armed: nothing is
\* pending and cleanup() can be called again
C18_Witness ==
  /\ constructed /\ cleanedUp
  /\ timer # NoTimer /\ last.wait > 0 /\ ~last.override
  /\ pending = { }
  /\ ENABLED Cleanup

C20_ModeSubsetting ==
  constructed =>
    /\ DOMAIN sensors = DOMAIN accessory.services
    /\ config.mode = "basic" =>
         /\ DOMAIN accessory.services = { "sunrise", "sunset" }
         /\ Cardinality(DOMAIN accessory.services) = 2
    /\ config.mode = "extended" =>
         /\ DOMAIN accessory.services
              = { "sunrise", "goldenHourEnd", "goldenHour", "sunset" }
         /\ Cardinality(DOMAIN accessory.services) = 4
    /\ config.mode \in { "full", "none" } =>
         /\ DOMAIN accessory.services = EventNames
         /\ Cardinality(DOMAIN accessory.services) = 14

\* an extended-mode monitor constructed on a fresh accessory at the
\* polar-night location: four sensors, though none of their events has an
\* instant there
C20_Witness ==
  /\ constructed
  /\ ctor.previousMode = NoContextMode
  /\ config.mode = "extended" /\ config.location = 3
  /\ Cardinality(DOMAIN accessory.services) = 4
  /\ Cardinality(DOMAIN sensors) = 4

\* C21. Mode switching retracts stale sensors: starting from a fresh
\* accessory, after any sequence of monitor constructions on it with arbitrary
\* modes, the accessory's occupancy services are exactly the enabled event set
\* of the most recently constructed mode, each tracked by the monitor, and its
\* other services are untouched.
C21_StaleSensorsRetracted ==
  constructed =>
    /\ DOMAIN accessory.services = Range(EnabledSensors(config))
    /\ DOMAIN sensors = Range(EnabledSensors(config))
    /\ accessory.mode = ModeOf(config)
    /\ accessory.others = FreshAccessory.others

\* an extended-mode monitor constructed on the accessory a full-mode run left:
\* ten of the fourteen services were retracted
C21_Witness ==
  /\ constructed
  /\ ctor.modeChanged /\ ctor.previousMode = "full"
  /\ config.mode = "extended"
  /\ DOMAIN accessory.services
       = { "sunrise", "goldenHourEnd", "goldenHour", "sunset" }
  /\ accessory.others = { "AccessoryInformation" }

\* C24. Publication per cycle: every recomputation publishes occupancy and
\* display time for each enabled event and for no event outside the enabled
\* set; the display time of an offsettable event is that of its
\* offset-adjusted instant.
C24_PublicationPerCycle ==
  constructed =>
    /\ DOMAIN sensors = Range(EnabledSensors(config))
    /\ \A k \in DOMAIN sensors :
         /\ sensors[k].occupied \in BOOLEAN
         /\ accessory.services[k] = sensors[k]
         /\ RawDate(k).kind = "date" =>
              sensors[k].time
                = [ str |-> "time",
                    sec |-> ((RawDate(k).ms + ConfiguredMinutes(k) * 60000) % DayMs)
                              \div 1000 ]

\* a timer-fired recomputation of an extended-mode monitor: four sensors
\* published; and a full-mode one whose sunsetStart shows the adjusted time
C24_Witness ==
  /\ constructed /\ ~last.override /\ clock \notin StartInstants
  /\ config.mode = "full"
  /\ ConfiguredMinutes("sunsetStart") = -30
  /\ RawDate("sunsetStart").kind = "date"
  /\ sensors["sunsetStart"].time.sec
       = ((RawDate("sunsetStart").ms - 30 * 60000) % DayMs) \div 1000
  /\ sensors["sunsetStart"].time.sec
       # (RawDate("sunsetStart").ms % DayMs) \div 1000

\* C25. Positive wakeup delay: the delay a recomputation passes to the timer
\* is greater than 1000 ms when a future event exists and exactly one hour
\* otherwise, for every timeline, those with missing or invalid instants
\* included; a pending wakeup is due after the instant it was armed at.
C25_PositiveWakeupDelay ==
  (constructed /\ ~last.override) =>
    /\ last.wait > 0
    /\ (\E k \in ValidEnabled : ExpectedInstant(k) > last.now) => last.wait > BufferMs
    /\ (\A k \in ValidEnabled : ExpectedInstant(k) <= last.now) => last.wait = HourMs
    /\ \A p \in pending : p.at > last.now

\* a recomputation on a timeline that holds invalid instants and a future
\* event: the delay is that event's distance plus the buffer
C25_Witness ==
  /\ constructed /\ ~last.override
  /\ ~AllValid(last.sorted)
  /\ \E k \in ValidEnabled :
       /\ ExpectedInstant(k) > last.now
       /\ last.wait = ExpectedInstant(k) - last.now + BufferMs
  /\ last.wait > BufferMs
  /\ pending # { }

\* a construction was attempted: the constructor returned or threw
Attempted == constructed \/ ctor.error # NoError

\* C23. Unknown mode falls back to full: constructing a monitor (on a config
\* with a location) with a mode value other than basic, extended or full
\* raises no error and yields the full 14-event enabled set.
C23_UnknownModeIsFull ==
  ( /\ Attempted
    /\ config.location # NoLocation
    /\ config.mode \notin { "basic", "extended", "full" } )
  => /\ ctor.error = NoError
     /\ constructed
     /\ DOMAIN sensors = EventNames
     /\ Cardinality(DOMAIN sensors) = 14

\* C26. Missing coordinates fail fast: constructing a monitor from a config
\* without valid latitude/longitude raises an error at construction; no
\* monitor results and no timer is armed for that location.
C26_MissingCoordinatesFailFast ==
  (Attempted /\ config.location \notin ValidLocations) =>
    /\ ctor.error # NoError
    /\ ~constructed
    /\ pending = { } /\ timer = NoTimer
    /\ sensors = << >>

\* the monitors constructed on the accessory object o
MonitorsOf(o) == { id \in DOMAIN monitors : monitors[id].object = o }

\* C22. Mode change is teardown-then-construct: whenever the platform
\* attaches a new monitor to an accessory that already has one, the old
\* monitor's timer is cancelled first, so at no time do two monitors with
\* pending timers exist for the same accessory.
C22_TeardownThenConstruct ==
  \A i, j \in DOMAIN monitors :
    (i # j /\ monitors[i].object = monitors[j].object)
      => ~(monitors[i].pending /\ monitors[j].pending)

\* an accessory got a second monitor while the platform runs: the first is
\* torn down, the second has its timer pending
C22_Witness ==
  /\ host.phase = "launched"
  /\ \E i, j \in DOMAIN monitors :
       /\ i < j
       /\ monitors[i].object = monitors[j].object
       /\ monitors[i].cleanedUp /\ ~monitors[i].pending
       /\ monitors[j].pending

\* the configured locations, their uuids, and whether their names differ
Configured == ConfigsOf(platformConfig)

UuidAt(i) == UUID(BaseName(Configured[i], i))

DistinctNames ==
  \A i, j \in DOMAIN Configured : i # j => UuidAt(i) # UuidAt(j)

\* the accessory of uuid u is in the map with a monitor whose timer is pending
Running(u) ==
  /\ u \in DOMAIN platformAccessories
  /\ platformAccessories[u].instance # NoInstance
  /\ monitors[platformAccessories[u].instance].pending

\* C27. Error containment per location: when one configured location fails
\* (e.g. missing coordinates), every other configured location, listed before
\* or after it, still gets its accessory and a running monitor, and the
\* obsolete-accessory pruning step still runs.
C27_ErrorContainment ==
  (host.phase = "launched" /\ DistinctNames) =>
    /\ \A i \in DOMAIN Configured :
         ConstructorError(Configured[i]) = NoError => Running(UuidAt(i))
    /\ DOMAIN platformAccessories \subseteq { UuidAt(i) : i \in DOMAIN Configured }

\* what does hold: the locations listed before the first failing one run
EarlierLocationsRun ==
  (host.phase = "launched" /\ DistinctNames) =>
    \A i \in DOMAIN Configured :
      (\A j \in 1..i : ConstructorError(Configured[j]) = NoError)
        => Running(UuidAt(i))

\* the uuids that two configured locations share
DuplicateUuids ==
  { UuidAt(i) : i \in { k \in DOMAIN Configured :
                          \E j \in DOMAIN Configured : j # k /\ UuidAt(j) = UuidAt(k) } }

\* C28. Duplicate location names are rejected: if two configured locations
\* have the same name (hence the same accessory uuid), reconcile surfaces a
\* configuration error and constructs no monitor for either of them.
C28_DuplicateNamesRejected ==
  (host.phase = "launched" /\ DuplicateUuids # { }) =>
    /\ host.error # NoError
    /\ \A id \in DOMAIN monitors : monitors[id].uuid \notin DuplicateUuids

\* the monitors on the accessory object o whose timer is pending
PendingOn(o) == { id \in MonitorsOf(o) : monitors[id].pending }

\* the cached accessory of the location at index i was reused: the map holds
\* the restored object, the host was not asked to register anything, the
\* stored config is a configured one of that name, one monitor is attached
Reused(i) ==
  LET u == UuidAt(i)
      o == CachedAccessory(BaseName(Configured[i], i)).object
  IN  /\ u \in DOMAIN platformAccessories
      /\ platformAccessories[u].object = o
      /\ o \in host.updated
      /\ \A id \in DOMAIN monitors : monitors[id].uuid = u => monitors[id].object = o
      /\ platformAccessories[u].context \in
           { Configured[j] : j \in { k \in DOMAIN Configured : UuidAt(k) = u } }
      /\ platformAccessories[u].instance # NoInstance
      /\ PendingOn(o) = { platformAccessories[u].instance }

\* the location at index i has a restored accessory and a config that a
\* monitor can be constructed from
RestoredFor(i) ==
  /\ CachedAccessory(BaseName(Configured[i], i)).object \in host.restored
  /\ \A j \in DOMAIN Configured :
       UuidAt(j) = UuidAt(i) => ConstructorError(Configured[j]) = NoError

\* C29. Cache reuse: when a cached accessory restored through
\* configureAccessory has the uuid derived from a configured location's name,
\* reconcile reuses that same accessory object (none is created or
\* registered), refreshes its stored config, and attaches exactly one monitor.
C29_CacheReuse ==
  host.phase = "launched" =>
    \A i \in DOMAIN Configured : RestoredFor(i) => Reused(i)

\* what does hold: cache reuse when no configured location fails
CacheReuseWhenNoneFails ==
  ( /\ host.phase = "launched"
    /\ \A j \in DOMAIN Configured : ConstructorError(Configured[j]) = NoError )
  => \A i \in DOMAIN Configured : RestoredFor(i) => Reused(i)

\* the uuids of the configured locations
ConfiguredUuids == { UuidAt(i) : i \in DOMAIN Configured }

\* the restored accessories that no configured location names
Obsolete ==
  { o \in host.restored :
      \A i \in DOMAIN Configured :
        CachedAccessory(BaseName(Configured[i], i)).object # o }

\* C30. Reconcile postcondition: after reconcile completes without host
\* errors, for a config given as an `instances` list or as a single unwrapped
\* record, the accessory map contains exactly one accessory per configured
\* location uuid, each with an attached monitor, and every cached accessory
\* whose uuid matches no configured location is unregistered and removed.
C30_ReconcilePostcondition ==
  (host.phase = "launched" /\ host.error = NoError) =>
    /\ DOMAIN platformAccessories = ConfiguredUuids
    /\ \A u \in ConfiguredUuids : Running(u)
    /\ \A o \in Obsolete :
         /\ o \in host.unregistered
         /\ \A u \in DOMAIN platformAccessories : platformAccessories[u].object # o

\* reconcile completed for a single unwrapped record, and an obsolete cached
\* accessory was there to prune
C30_Witness ==
  /\ host.phase = "launched" /\ host.error = NoError
  /\ "instances" \notin DOMAIN platformConfig
  /\ Obsolete # { }
  /\ ConfiguredUuids # { }

\* reconcile completed for an `instances` list of two locations, one of them
\* on a restored accessory
InstancesListReconciled ==
  /\ host.phase = "launched" /\ host.error = NoError
  /\ "instances" \in DOMAIN platformConfig
  /\ Cardinality(ConfiguredUuids) = 2
  /\ host.restored \ Obsolete # { }

\* C31. Shutdown stops all timers: after the host's shutdown event has been
\* handled, no monitor created by the platform has a pending timer, for any
\* prior sequence of configureAccessory, reconcile and recomputation steps.
C31_ShutdownStopsTimers ==
  host.phase = "shutdown" => \A id \in DOMAIN monitors : ~monitors[id].pending

\* shutdown was handled after a launch that constructed monitors, one of them
\* already replaced on its accessory, and after a timer had fired
C31_Witness ==
  /\ host.phase = "shutdown"
  /\ \E id \in DOMAIN monitors : monitors[id].recomputed > 0 /\ monitors[id].cleanedUp
  /\ \E i, j \in DOMAIN monitors : i # j /\ monitors[i].object = monitors[j].object

\* what a recomputation at instant now under config cfg publishes, computed
\* from cfg and now alone
PublishedFor(cfg, now) ==
  Publish(Range(EnabledSensors(cfg)),
          ApplyOffsets(cfg, GetTimes(cfg.location, now)),
          ActiveKeyFor(cfg, now))

C34_LaunchErrorsCaught ==
  /\ host.escaped = NoError
  /\ host.phase # "crashed"
  /\ \A i \in DOMAIN Configured :
       ( /\ host.runs > 0 /\ DistinctNames
         /\ ConstructorError(Configured[i]) # NoError
         /\ \A j \in 1..(i - 1) : ConstructorError(Configured[j]) = NoError )
       => host.error = ConstructorError(Configured[i])

\* a launch in which the constructor of the second location threw, after the
\* monitor of the first was constructed
C34_Witness ==
  /\ host.phase = "launched"
  /\ host.error # NoError
  /\ Len(Configured) = 2
  /\ ConstructorError(Configured[1]) = NoError
  /\ monitors # << >>

\* C35. No orphan sensors: after any monitor construction on any accessory
\* (fresh, or restored from cache with occupancy sensors of an earlier run,
\* with or without a recorded previous mode), every occupancy service present
\* on the accessory is tracked in the monitor's sensors map, so that its
\* occupancy is rewritten on every recomputation and none stays occupied from
\* an earlier run.
C35_NoOrphanSensors ==
  constructed =>
    /\ DOMAIN accessory.services \subseteq DOMAIN sensors
    /\ \A s \in DOMAIN accessory.services : accessory.services[s] = sensors[s]

\* the pairs of positions of the timeline that hold the identical instant
TiedPairs ==
  { p \in (1..Len(last.sorted)) \X (1..Len(last.sorted)) :
      /\ p[1] < p[2]
      /\ last.sorted[p[1]].date.kind = "date"
      /\ last.sorted[p[2]].date.kind = "date"
      /\ last.sorted[p[1]].date.ms = last.sorted[p[2]].date.ms }

\* C37. Tied events: when two timeline events have the identical instant, the
\* one placed earlier in the sorted timeline has an empty window and is never
\* published as occupied for any now, while exactly one event is still
\* occupied.
C37_TiedEvents ==
  (constructed /\ TiedPairs # { }) =>
    /\ \A p \in TiedPairs : ~sensors[last.sorted[p[1]].key].occupied
    /\ Cardinality(Occupied) = 1

\* a recomputation at the very instant two events share: the later placed of
\* the two is the occupied one
C37_Witness ==
  /\ constructed
  /\ \E p \in TiedPairs :
       /\ last.now = last.sorted[p[1]].date.ms
       /\ Occupied = { last.sorted[p[2]].key }

\* the config that differs from cfg only in having no offsets
NoOffsets(cfg) == [ cfg EXCEPT !.offset = { } ]

\* the wakeup delay a recomputation at now under config cfg arms
WaitFor(cfg, now) ==
  CHOOSE w \in { NextWait(now, s) :
                 s \in { SortedEvents(cfg, ApplyOffsets(cfg, GetTimes(cfg.location, now))) } } :
    TRUE

\* C38. Offsets do not interfere outside full mode: in basic and extended
\* modes (whose enabled sets contain neither sunriseEnd nor sunsetStart), two
\* monitors that differ only in their configured offsets publish identical
\* occupancy and display values and arm identical wakeup delays for every
\* now: each publishes and arms what the monitor without offsets does.
C38_OffsetsOutsideFullMode ==
  (constructed /\ ModeOf(config) \in { "basic", "extended" }) =>
    /\ "sunriseEnd" \notin DOMAIN sensors /\ "sunsetStart" \notin DOMAIN sensors
    /\ sensors = PublishedFor(NoOffsets(config), last.now)
    /\ last.wait = WaitFor(NoOffsets(config), last.now)

\* a basic or extended monitor with offsets on sunriseEnd and sunsetStart
\* recomputed on a timer and armed the next one
C38_Witness ==
  /\ constructed
  /\ ModeOf(config) \in { "basic", "extended" }
  /\ ConfiguredMinutes("sunriseEnd") # 0
  /\ ConfiguredMinutes("sunsetStart") # 0
  /\ ~last.override /\ last.now > HMS(12, 30, 0) + 250
  /\ pending # { }
  /\ Occupied # { }

\* the position of key k in the timeline
Pos(sorted, k) == CHOOSE i \in 1..Len(sorted) : sorted[i].key = k

\* the timeline holds instants only, each later than the one before it
StrictlyAscending(sorted) ==
  /\ AllValid(sorted)
  /\ \A i \in 1..(Len(sorted) - 1) : sorted[i].date.ms < sorted[i + 1].date.ms

\* each event of the timeline lasts longer than the buffer
LongWindows(sorted) ==
  /\ AllValid(sorted)
  /\ \A i \in 1..(Len(sorted) - 1) :
       sorted[i + 1].date.ms - sorted[i].date.ms > BufferMs

\* a timer fires on the day of the recomputation before it, which ran at the
\* clock's instant and armed that timer
TimerStepWithinDay ==
  /\ constructed /\ clock' # clock
  /\ ~last.override /\ last.now = clock
  /\ DayOf(clock') = DayOf(clock)
  /\ Len(last.sorted) > 0
  /\ last'.sorted = last.sorted

\* C36. No event is skipped: for a monitor that runs continuously with timers
\* firing at their scheduled time, every event of a day's timeline is
\* published as occupied by some recomputation before the following event of
\* that timeline is, events with a window of 1000 ms or less included: from
\* one timer-fired recomputation to the next the occupied event advances by
\* at most one position of the timeline. (Stated for timelines of distinct
\* instants.)
C36_NoEventSkipped ==
  [][(TimerStepWithinDay /\ StrictlyAscending(last.sorted)) =>
       Pos(last.sorted, last'.activeKey) <= Pos(last.sorted, last.activeKey) + 1]_vars

\* what does hold: no event is skipped when every window exceeds the buffer
NoEventSkippedLongWindows ==
  [][(TimerStepWithinDay /\ LongWindows(last.sorted)) =>
       Pos(last.sorted, last'.activeKey) <= Pos(last.sorted, last.activeKey) + 1]_vars

\* the uuid of a restored accessory object
UuidOf(o) == UUID(o[2])

\* every config of the uuid u is one a monitor can be constructed from
Constructible(u) ==
  \A j \in DOMAIN Configured : UuidAt(j) = u => ConstructorError(Configured[j]) = NoError

\* C39. Host registry failures during reconcile: if registering a new
\* accessory throws, the error is logged, the accessory stays in the
\* platform's map and still gets a monitor; if unregistering an obsolete
\* accessory throws, the error is logged, that accessory stays in the map,
\* and the remaining obsolete accessories are still processed.
C39_RegistryFailures ==
  host.phase = "launched" =>
    /\ host.escaped = NoError
    /\ \A i \in DOMAIN Configured :
         ( /\ \A j \in 1..(i - 1) : ConstructorError(Configured[j]) = NoError
           /\ UuidAt(i) \in host.refuses
           /\ CachedAccessory(BaseName(Configured[i], i)).object \notin host.restored )
         => << "register", UuidAt(i) >> \in host.logged
    /\ \A u \in ConfiguredUuids :
         << "register", u >> \in host.logged =>
           /\ u \in DOMAIN platformAccessories
           /\ Constructible(u) => Running(u)
    /\ host.error = NoError =>
         \A o \in Obsolete :
           IF UuidOf(o) \in host.refuses
             THEN /\ << "unregister", UuidOf(o) >> \in host.logged
                  /\ UuidOf(o) \in DOMAIN platformAccessories
                  /\ o \notin host.unregistered
             ELSE /\ UuidOf(o) \notin DOMAIN platformAccessories
                  /\ o \in host.unregistered

\* a launch in which the host refused to register the new accessory of a
\* location and to unregister one obsolete accessory, a second obsolete
\* accessory being there
C39_Witness ==
  /\ host.phase = "launched" /\ host.error = NoError
  /\ \E u \in ConfiguredUuids : << "register", u >> \in host.logged /\ Running(u)
  /\ \E o \in Obsolete : << "unregister", UuidOf(o) >> \in host.logged
  /\ \E o \in Obsolete : o \in host.unregistered

\* what the claim looks at of each monitor: its enabled set, the values
\* published to its sensors and services, and its pending timer
MonitorView ==
  [ enabled |-> EnabledSensors(config), sensors |-> sensors,
    services |-> accessory.services, timer |-> OwnPending(pending) ]

OtherView ==
  [ enabled |-> EnabledSensors(other.config), sensors |-> other.sensors,
    services |-> other.accessory.services, timer |-> OtherPending(pending) ]

\* the fields of the first monitor and of its accessory
MonitorFields ==
  << constructed, cleanedUp, timer, sensors, last, accessory, ctor >>

\* C32. Independence of monitors: with two monitors for two differently
\* named locations, any step of one (construction, recomputation, timer
\* arming, cleanup) leaves the other's enabled set, published occupancy and
\* display values and pending timer unchanged: a step that writes a field of
\* one monitor changes nothing of the other's view, and a step that writes no
\* field of a monitor does not touch that monitor's pending timer either.
C32_Independence ==
  [][/\ MonitorFields' # MonitorFields => OtherView' = OtherView
     /\ other' # other => MonitorView' = MonitorView
     /\ MonitorFields' = MonitorFields => MonitorView' = MonitorView
     /\ other' = other => OtherView' = OtherView]_vars

\* both monitors run with a pending timer each, the first having recomputed
\* on a timer after the second was constructed
C32_Witness ==
  /\ constructed /\ other.constructed
  /\ OwnPending(pending) # { } /\ OtherPending(pending) # { }
  /\ last.cancelled
  /\ last.now > HMS(12, 30, 0) + 250
  /\ Occupied # { }
  /\ \E k \in DOMAIN other.sensors : other.sensors[k].occupied

====
